---------------------------- MODULE Spec2Model ----------------------------
(***************************************************************************)
(* Model of moe/optimal_learning/EPI/src/python/cpp_wrappers/              *)
(* log_likelihood.py: the LogLikelihood evaluator classes, the multistart  *)
(* hyperparameter optimization wrapper and the batch evaluation wrapper,   *)
(* together with the native engine (moe.build.GPP) they call into.         *)
(*                                                                         *)
(* Hyperparameters live on a log10 grid.  A log10 coordinate x stands for  *)
(* the linear value 10^x, stored as the integer 10^(x+3) so that the grid  *)
(* -3..2 has exact images.  Likelihood values are integers.                *)
(***************************************************************************)
EXTENDS Integers, Sequences, FiniteSets, TLC

\* ------------------------------------------------------------------ bounds
MaxHyper == 2      \* kernels have 1..MaxHyper hyperparameters
MaxStarts == 3     \* num_multistarts ranges over 1..MaxStarts
MaxThreads == 2    \* max_num_threads ranges over 1..MaxThreads
MaxEvalList == 2   \* batch evaluation lists hold 0..MaxEvalList points

\* ------------------------------------------------- constants of the program
DefaultDomainMin == -2   \* ClosedInterval(-2.0, 1.0)
DefaultDomainMax == 1

LML == "log_marginal_likelihood"
LOO == "leave_one_out_log_likelihood"
LogLikelihoodTypes == {LML, LOO}

OptimizerTypes == {"null", "gradient_descent", "newton"}

NoError == "none"

\* --------------------------------------------------------- numeric helpers
Abs(a) == IF a < 0 THEN -a ELSE a

Sign(a) == IF a > 0 THEN 1 ELSE IF a < 0 THEN -1 ELSE 0

Min2(a, b) == IF a < b THEN a ELSE b

Max2(a, b) == IF a > b THEN a ELSE b

RECURSIVE TenTo(_)
TenTo(k) == IF k = 0 THEN 1 ELSE 10 * TenTo(k - 1)

\* log10 coordinate -> linear hyperparameter value (scaled by 1000)
Pow10(x) == TenTo(x + 3)

\* linear hyperparameter value -> log10 coordinate
RECURSIVE Log10(_)
Log10(v) == IF v = 1 THEN -3 ELSE 1 + Log10(v \div 10)

Pow10Vec(p) == [i \in 1..Len(p) |-> Pow10(p[i])]

Log10Vec(h) == [i \in 1..Len(h) |-> Log10(h[i])]

RECURSIVE SumSeq(_)
SumSeq(s) == IF Len(s) = 0 THEN 0 ELSE Head(s) + SumSeq(Tail(s))

ClosedInterval(lo, hi) == [min |-> lo, max |-> hi]

\* ------------------------------------------------------------ input sets
\* log10 levels the callers' hyperparameter vectors are drawn from
HyperLevels == {-1, 0}

\* hyperparameter vectors (linear space) of a kernel with n hyperparameters
ArgPoints(n) == {[i \in 1..n |-> Pow10(x)] : x \in HyperLevels}

\* observed values of the single sampled point of a dataset
ObservedValues == {-1, 0}

HistoricalData(y) ==
    [dim |-> 1, num_sampled |-> 1, points_sampled |-> <<0>>,
     points_sampled_value |-> <<y>>, noise_variance |-> <<1>>]

Datasets == {HistoricalData(y) : y \in ObservedValues}

\* object identities: the caller's object and the evaluator's private one
CallerObj == "caller"
PrivateObj == "private"
ObjIds == {CallerObj, PrivateObj}

VARIABLES
    kernels,    \* ObjIds -> hyperparameters held by that covariance object
    datasets,   \* ObjIds -> contents of that HistoricalData object
    ev,         \* the evaluator: class, _log_likelihood_type, object references
    pc,         \* "idle" | "running" | "returned"
    call,       \* the multistart call in flight or just returned
    ret         \* outcome of the last evaluator operation

vars == <<kernels, datasets, ev, pc, call, ret>>

\* ------------------------------------------------------- the native engine
\* C_GP.compute_log_likelihood: the likelihood measure of `kind` at the
\* linear-space hyperparameters h over dataset d.  It reads only its arguments.
GPP_compute_log_likelihood(d, kind, h) ==
    LET y == d.points_sampled_value[1]
        x == Log10Vec(h)
    IN  IF kind = LML
        THEN 0 - SumSeq([i \in 1..Len(x) |-> (x[i] - y) * (x[i] - y)])
        ELSE 0 - SumSeq([i \in 1..Len(x) |->
                            Abs(x[i] - (y + d.noise_variance[1]))]) - 1

\* the objective at a log10 point p
ObjectiveAt(d, kind, p) == GPP_compute_log_likelihood(d, kind, Pow10Vec(p))

Bump(p, i, delta) == [p EXCEPT ![i] = p[i] + delta]

\* C_GP.compute_hyperparameter_grad_log_likelihood: centred differences
GPP_compute_hyperparameter_grad_log_likelihood(d, kind, h) ==
    LET x == Log10Vec(h)
    IN  [i \in 1..Len(x) |->
            ObjectiveAt(d, kind, Bump(x, i, 1)) - ObjectiveAt(d, kind, Bump(x, i, -1))]

\* ------------------------------------------- the native multistart engine
IsValidInterval(iv) == iv.min <= iv.max

\* a usable domain has one well-formed interval per hyperparameter
IsValidDomain(domain, n) ==
    /\ Len(domain) = n
    /\ \A i \in 1..Len(domain) : IsValidInterval(domain[i])

\* the optimizer/objective combinations the engine dispatches on
IsSupported(optimizer_type, objective_type) ==
    ~(optimizer_type = "newton" /\ objective_type = LOO)

\* the error of a call that cannot start, NoError when it can; the
\* optimizer/objective dispatch comes before the domain is looked at
EntryError(optimizer_type, objective_type, domain, n) ==
    IF ~IsSupported(optimizer_type, objective_type) THEN "UnsupportedOperation"
    ELSE IF ~IsValidDomain(domain, n) THEN "InvalidDomain"
    ELSE NoError

\* Latin hypercube sampling: the stratum, among num_multistarts, of the k-th
\* initial guess in dimension j; each dimension runs through a permutation of
\* the strata, rotated by the seed of the random stream
Stratum(seed, num_multistarts, k, j) ==
    (seed + (IF j % 2 = 1 THEN k - 1 ELSE num_multistarts - k)) % num_multistarts

\* the k-th initial guess: every coordinate falls inside its interval of the
\* log10 domain, at the lower edge of its stratum
InitialPoint(seed, domain, num_multistarts, k) ==
    [j \in 1..Len(domain) |->
        domain[j].min +
            ((Stratum(seed, num_multistarts, k, j) *
                (domain[j].max - domain[j].min + 1)) \div num_multistarts)]

InitialPoints(seed, domain, num_multistarts) ==
    [k \in 1..num_multistarts |-> InitialPoint(seed, domain, num_multistarts, k)]

\* domain clamping of a log10 point
Clamp(domain, p) ==
    [i \in 1..Len(p) |-> Max2(domain[i].min, Min2(domain[i].max, p[i]))]

Gradient(d, kind, p) ==
    [i \in 1..Len(p) |->
        ObjectiveAt(d, kind, Bump(p, i, 1)) - ObjectiveAt(d, kind, Bump(p, i, -1))]

Curvature(d, kind, p) ==
    [i \in 1..Len(p) |->
        ObjectiveAt(d, kind, Bump(p, i, 1)) - 2 * ObjectiveAt(d, kind, p)
            + ObjectiveAt(d, kind, Bump(p, i, -1))]

\* one gradient-ascent step, clamped to the domain
GradientStep(d, kind, domain, p) ==
    LET g == Gradient(d, kind, p)
    IN  Clamp(domain, [i \in 1..Len(p) |-> p[i] + Sign(g[i])])

RECURSIVE GradientAscent(_, _, _, _, _)
GradientAscent(d, kind, domain, p, iterations) ==
    LET q == GradientStep(d, kind, domain, p)
    IN  IF iterations = 0 \/ q = p THEN p
        ELSE GradientAscent(d, kind, domain, q, iterations - 1)

\* one Newton step from gradient and Hessian diagonal, clamped to the domain
NewtonStep(d, kind, domain, p) ==
    LET g == Gradient(d, kind, p)
        c == Curvature(d, kind, p)
    IN  Clamp(domain, [i \in 1..Len(p) |->
                IF c[i] < 0 THEN p[i] + ((g[i] \div 2) \div (0 - c[i])) ELSE p[i]])

RECURSIVE Newton(_, _, _, _, _)
Newton(d, kind, domain, p, iterations) ==
    LET q == NewtonStep(d, kind, domain, p)
    IN  IF iterations = 0 \/ q = p THEN p
        ELSE Newton(d, kind, domain, q, iterations - 1)

\* LocalOptimizer.refine: the refined point of one start
Refine(optimizer_type, max_iterations, d, kind, domain, start) ==
    IF optimizer_type = "null" THEN start
    ELSE IF optimizer_type = "gradient_descent"
         THEN GradientAscent(d, kind, domain, start, max_iterations)
         ELSE Newton(d, kind, domain, start, max_iterations)

\* the worker a start is statically assigned to
Owner(k, num_threads) == ((k - 1) % num_threads) + 1

\* no partition: every worker is handed every start
AssignmentAll(num_multistarts, num_threads) ==
    [w \in 1..num_threads |-> [k \in 1..num_multistarts |-> k]]

\* the starts of each worker, in increasing order
Assignment(num_multistarts, num_threads) ==
    [w \in 1..num_threads |->
        SelectSeq([k \in 1..num_multistarts |-> k],
                  LAMBDA k : Owner(k, num_threads) = w)]

\* whether a later candidate replaces the best so far
Replaces(candidate, best) == candidate > best

\* max-selection over the refined values in iteration order
RECURSIVE SelectBest(_, _, _)
SelectBest(values, k, best) ==
    IF k > Len(values) THEN best
    ELSE SelectBest(values, k + 1, IF Replaces(values[k], values[best]) THEN k ELSE best)

BestIndex(values) == SelectBest(values, 2, 1)

\* a flag that also counts a value equal to the first initial value
FoundImprovementOrEqual(best_value, first_initial_value) ==
    best_value >= first_initial_value

\* status.found_improvement
FoundImprovement(best_value, first_initial_value) == best_value > first_initial_value

\* the reduction on the calling thread: (hyperparameters, found_improvement)
Reduce(d, kind, initial_points, refined) ==
    LET values == [k \in 1..Len(refined) |-> ObjectiveAt(d, kind, refined[k])]
        best == BestIndex(values)
        found == FoundImprovement(values[best], ObjectiveAt(d, kind, initial_points[1]))
    IN  [hyperparameters |-> IF found THEN Pow10Vec(refined[best])
                             ELSE Pow10Vec(initial_points[1]),
         found_improvement |-> found]

\* every worker has refined all of its starts
AllWorkersFinished(c) == \A w \in DOMAIN c.queue : c.queue[w] = <<>>

\* C_GP.evaluate_log_likelihood_at_hyperparameter_list: each worker evaluates
\* its share of the list; an entry no worker owns stays at its initial 0
GPP_evaluate_log_likelihood_at_hyperparameter_list(points, d, kind, hyperparameters, num_to_eval, num_threads) ==
    LET share == Assignment(num_to_eval, num_threads)
        owned(i) == \E w \in 1..num_threads :
                        \E j \in 1..Len(share[w]) : share[w][j] = i
    IN  [i \in 1..num_to_eval |->
            IF owned(i) THEN GPP_compute_log_likelihood(d, kind, points[i]) ELSE 0]

\* ----------------------------------------------------- evaluator accessors
EvCovariance == kernels[ev._covariance]

EvHistoricalData == datasets[ev._historical_data]

num_hyperparameters == Len(EvCovariance)

\* keeping a reference to the argument instead of copying it
alias(id) == id

\* copy.deepcopy: a fresh object, never the argument itself
deepcopy(id) == PrivateObj

\* LogLikelihood.__init__
LogLikelihood__init__(cls, covariance_function, historical_data, log_likelihood_type) ==
    [cls |-> cls,
     _covariance |-> deepcopy(covariance_function),
     _historical_data |-> deepcopy(historical_data),
     _log_likelihood_type |-> log_likelihood_type]

\* LogMarginalLikelihood.__init__
LogMarginalLikelihood__init__(covariance_function, historical_data) ==
    LogLikelihood__init__("LogMarginalLikelihood", covariance_function,
                          historical_data, LML)

\* LeaveOneOutLogLikelihood.__init__
LeaveOneOutLogLikelihood__init__(covariance_function, historical_data) ==
    LogLikelihood__init__("LeaveOneOutLogLikelihood", covariance_function,
                          historical_data, LOO)

\* the evaluators a caller can construct from its kernel and dataset: the two
\* subclasses, and LogLikelihood itself with an explicit LOO-CV type (with its
\* default type it is LogMarginalLikelihood in all but name)
Constructed(covariance_function, historical_data) ==
    {LogLikelihood__init__("LogLikelihood", covariance_function, historical_data, LOO),
     LogMarginalLikelihood__init__(covariance_function, historical_data),
     LeaveOneOutLogLikelihood__init__(covariance_function, historical_data)}

\* the heap after a deepcopy of object `src` into the object `dst` refers to
CopyInto(heap, src, dst) == [heap EXCEPT ![dst] = heap[src]]

NoCall == [phase |-> "none"]

\* `held`: the hyperparameters the evaluator's kernel held when the call began
NoRet == [op |-> "none", arg |-> <<>>, list |-> <<>>, value |-> 0,
          values |-> <<>>, error |-> NoError, threads |-> 0, held |-> <<>>]

Returned(op, arg, value, values, error) ==
    [NoRet EXCEPT !.op = op, !.arg = arg, !.value = value,
                  !.values = values, !.error = error]

Init ==
    \E n \in 1..MaxHyper :
      \E h \in ArgPoints(n), d \in Datasets :
        \E e \in Constructed(CallerObj, CallerObj) :
            /\ kernels = [i \in ObjIds |-> h]
            /\ datasets = [i \in ObjIds |-> d]
            /\ ev = e
            /\ pc = "idle"
            /\ call = NoCall
            /\ ret = NoRet

\* ------------------------------------------------------------- the caller
\* the caller constructs a new evaluator from its kernel and dataset
Construct ==
    /\ pc = "idle"
    /\ \E e \in Constructed(CallerObj, CallerObj) :
        /\ ev' = e
        /\ kernels' = CopyInto(kernels, CallerObj, e._covariance)
        /\ datasets' = CopyInto(datasets, CallerObj, e._historical_data)
    /\ UNCHANGED <<pc, call, ret>>

\* the caller sets the hyperparameters of its own kernel object
CallerSetHyperparameters ==
    /\ \E h \in ArgPoints(Len(kernels[CallerObj])) :
        /\ h # kernels[CallerObj]
        /\ kernels' = [kernels EXCEPT ![CallerObj] = h]
    /\ UNCHANGED <<datasets, ev, pc, call, ret>>

\* the caller changes its own dataset object
CallerMutateData ==
    /\ \E d \in Datasets :
        /\ d # datasets[CallerObj]
        /\ datasets' = [datasets EXCEPT ![CallerObj] = d]
    /\ UNCHANGED <<kernels, ev, pc, call, ret>>

\* ---------------------------------------------------------- the evaluator
\* a call that leaves the kernel's hyperparameters as they were
keep_hyperparameters(heap, id, h) == heap

\* self._covariance.set_hyperparameters(hyperparameters)
set_hyperparameters(heap, id, h) == [heap EXCEPT ![id] = h]

\* the value LogLikelihood.compute_log_likelihood returns for hyperparameters h
compute_log_likelihood_value(h) ==
    GPP_compute_log_likelihood(EvHistoricalData, ev._log_likelihood_type, h)

\* the gradient LogLikelihood.compute_grad_log_likelihood returns for h
compute_grad_log_likelihood_value(h) ==
    GPP_compute_hyperparameter_grad_log_likelihood(
        EvHistoricalData, ev._log_likelihood_type, h)

\* LogLikelihood.compute_log_likelihood (also compute_objective_function)
compute_log_likelihood ==
    /\ pc = "idle"
    /\ \E h \in ArgPoints(num_hyperparameters) :
        /\ kernels' = set_hyperparameters(kernels, ev._covariance, h)
        /\ ret' = [Returned("compute_log_likelihood", h,
                        compute_log_likelihood_value(h), <<>>, NoError)
                    EXCEPT !.held = EvCovariance]
    /\ pc' = "returned"
    /\ call' = NoCall
    /\ UNCHANGED <<datasets, ev>>

\* LogLikelihood.compute_grad_log_likelihood (also compute_grad_objective_function)
compute_grad_log_likelihood ==
    /\ pc = "idle"
    /\ \E h \in ArgPoints(num_hyperparameters) :
        /\ kernels' = set_hyperparameters(kernels, ev._covariance, h)
        /\ ret' = [Returned("compute_grad_log_likelihood", h, 0,
                        compute_grad_log_likelihood_value(h), NoError)
                    EXCEPT !.held = EvCovariance]
    /\ pc' = "returned"
    /\ call' = NoCall
    /\ UNCHANGED <<datasets, ev>>

\* a base-class method that returns a Hessian instead of raising
LogLikelihood_compute_hessian_returns(h) == NoError

\* LogLikelihood.compute_hessian_log_likelihood: raise NotImplementedError
LogLikelihood_compute_hessian_log_likelihood(h) == "NotImplementedError"

\* an override that returns a Hessian instead of raising
LeaveOneOutLogLikelihood_compute_hessian_returns(h) == NoError

\* LeaveOneOutLogLikelihood.compute_hessian_log_likelihood: raise NotImplementedError
LeaveOneOutLogLikelihood_compute_hessian_log_likelihood(h) == "NotImplementedError"

\* method resolution: only LeaveOneOutLogLikelihood overrides the method
compute_hessian_log_likelihood_of(cls, h) ==
    IF cls = "LeaveOneOutLogLikelihood"
    THEN LeaveOneOutLogLikelihood_compute_hessian_log_likelihood(h)
    ELSE LogLikelihood_compute_hessian_log_likelihood(h)

\* LogLikelihood.compute_hessian_objective_function
compute_hessian_objective_function_of(cls, h) ==
    compute_hessian_log_likelihood_of(cls, h)

\* a call of either Hessian entry point; the outcome is the error raised
\* (NoError would mean a Hessian was returned)
compute_hessian ==
    /\ pc = "idle"
    /\ \E h \in ArgPoints(num_hyperparameters) :
        \E entry \in {"compute_hessian_log_likelihood",
                      "compute_hessian_objective_function"} :
            ret' = Returned(entry, h, 0, <<>>,
                     IF entry = "compute_hessian_log_likelihood"
                     THEN compute_hessian_log_likelihood_of(ev.cls, h)
                     ELSE compute_hessian_objective_function_of(ev.cls, h))
    /\ pc' = "returned"
    /\ call' = NoCall
    /\ UNCHANGED <<kernels, datasets, ev>>

\* ------------------------------------------- the module-level entry points
\* hyperparameter_domain=None
NoDomain == [given |-> FALSE, intervals |-> <<>>]

GivenDomain(intervals) == [given |-> TRUE, intervals |-> intervals]

\* the test `hyperparameter_domain is None`
IsNone(hyperparameter_domain) == ~hyperparameter_domain.given

\* Python's `not hyperparameter_domain`: None and the empty list are falsy
IsFalsy(hyperparameter_domain) ==
    ~hyperparameter_domain.given \/ Len(hyperparameter_domain.intervals) = 0

\* the two bounds of the default interval in the wrong order
DefaultDomainSwapped(n) ==
    [i \in 1..n |-> ClosedInterval(DefaultDomainMax, DefaultDomainMin)]

\* "reasonable" constraints: one ClosedInterval(-2.0, 1.0) per hyperparameter
DefaultDomain(n) ==
    [i \in 1..n |-> ClosedInterval(DefaultDomainMin, DefaultDomainMax)]

\* the default taken whether or not the caller supplied a domain
DomainAlwaysDefault(hyperparameter_domain, n) == DefaultDomain(n)

\* the domain the search is handed
DomainUsed(hyperparameter_domain, n) ==
    IF IsFalsy(hyperparameter_domain) THEN DefaultDomain(n)
    ELSE hyperparameter_domain.intervals

\* the caller's objective_type left as it was
ObjectiveTypeKept(given_objective_type, log_likelihood_type) == given_objective_type

\* hyperparameter_optimization_parameters.objective_type = evaluator's type
ObjectiveTypeSet(given_objective_type, log_likelihood_type) == log_likelihood_type

\* the evaluator state handed to C_GP.multistart_hyperparameter_optimization
MultistartArgs ==
    [data |-> EvHistoricalData,
     hyperparameters |-> EvCovariance]

\* return numpy.array(hyperparameters_opt)
MultistartReturn(hyperparameters_opt) == hyperparameters_opt

\* handing over the caller's dataset object instead of the evaluator's own
EvaluateArgsCallerData ==
    [data |-> datasets[CallerObj],
     kind |-> ev._log_likelihood_type,
     hyperparameters |-> EvCovariance]

\* the evaluator state handed to C_GP.evaluate_log_likelihood_at_hyperparameter_list
EvaluateArgs ==
    [data |-> EvHistoricalData,
     kind |-> ev._log_likelihood_type,
     hyperparameters |-> EvCovariance]

SeqsUpTo(S, m) == UNION {[1..k -> S] : k \in 0..m}

\* the domains a caller supplies: m intervals, sub-ranges of [-2, 1] that
\* differ from one dimension to the next, the last one possibly malformed
SuppliedIntervals(m, malformed) ==
    [i \in 1..m |->
        IF malformed /\ i = m THEN ClosedInterval(1, -1)
        ELSE IF i % 2 = 1 THEN ClosedInterval(-1, 0) ELSE ClosedInterval(0, 1)]

DomainChoices ==
    {NoDomain} \cup
    {GivenDomain(SuppliedIntervals(m, b)) : m \in 0..MaxHyper, b \in BOOLEAN}

\* seeds of the caller's random streams
RandomSeeds == {0, 1}

\* max_iterations of the caller's parameters; the null optimizer ignores it
IterationChoices(optimizer_type) ==
    IF optimizer_type = "null" THEN {1} ELSE {1, 2}

\* multistart_hyperparameter_optimization, up to the start of the workers
multistart_hyperparameter_optimization ==
    /\ pc = "idle"
    /\ \E hyperparameter_domain \in DomainChoices,
          optimizer_type \in OptimizerTypes,
          given_objective_type \in LogLikelihoodTypes,
          num_multistarts \in 1..MaxStarts,
          max_num_threads \in 1..MaxThreads,
          seed \in RandomSeeds :
      \E max_iterations \in IterationChoices(optimizer_type) :
        LET domain == DomainUsed(hyperparameter_domain, num_hyperparameters)
            objective_type == ObjectiveTypeSet(given_objective_type,
                                               ev._log_likelihood_type)
            args == MultistartArgs
            error == EntryError(optimizer_type, objective_type, domain,
                                Len(args.hyperparameters))
            points == IF error = NoError
                      THEN InitialPoints(seed, domain, num_multistarts) ELSE <<>>
            c == [phase |-> IF error = NoError THEN "running" ELSE "failed",
                  error |-> error,
                  hyperparameter_domain |-> hyperparameter_domain,
                  given_objective_type |-> given_objective_type,
                  optimizer_type |-> optimizer_type,
                  num_multistarts |-> num_multistarts,
                  max_iterations |-> max_iterations,
                  max_num_threads |-> max_num_threads,
                  seed |-> seed,
                  domain |-> domain,
                  objective_type |-> objective_type,
                  data |-> args.data,
                  initial_points |-> points,
                  queue |-> IF error = NoError
                            THEN Assignment(num_multistarts, max_num_threads)
                            ELSE <<>>,
                  refined |-> [k \in 1..Len(points) |-> <<>>],
                  refine_count |-> [k \in 1..Len(points) |-> 0],
                  evaluations |-> 0,
                  hyperparameters |-> <<>>,
                  found_improvement |-> FALSE]
        IN  /\ call' = c
            /\ pc' = IF error = NoError THEN "running" ELSE "returned"
    /\ ret' = NoRet
    /\ UNCHANGED <<kernels, datasets, ev>>

\* one worker refines the next start of its share
WorkerRefine ==
    /\ pc = "running"
    /\ \E w \in DOMAIN call.queue :
        /\ call.queue[w] # <<>>
        /\ LET k == Head(call.queue[w])
               r == Refine(call.optimizer_type, call.max_iterations, call.data,
                           call.objective_type, call.domain, call.initial_points[k])
           IN  call' = [call EXCEPT !.queue[w] = Tail(@),
                                    !.refined[k] = r,
                                    !.refine_count[k] = @ + 1,
                                    !.evaluations = 1]
    /\ UNCHANGED <<kernels, datasets, ev, pc, ret>>

\* the optimum stored into the evaluator's kernel
write_back(heap, id, hyperparameters_opt) == [heap EXCEPT ![id] = hyperparameters_opt]

\* the kernel objects after multistart_hyperparameter_optimization: the wrapper
\* reads log_likelihood_evaluator._covariance and returns the optimum; it
\* stores nothing
kernels_after_multistart(heap, id, hyperparameters_opt) == heap

\* the join: max-selection on the calling thread, then the wrapper returns
MultistartJoin ==
    /\ pc = "running"
    /\ AllWorkersFinished(call)
    /\ LET r == Reduce(call.data, call.objective_type, call.initial_points,
                       call.refined)
       IN  /\ call' = [call EXCEPT !.phase = "done",
                                   !.hyperparameters = MultistartReturn(r.hyperparameters),
                                   !.found_improvement = r.found_improvement]
           /\ kernels' = kernels_after_multistart(kernels, ev._covariance,
                              MultistartReturn(r.hyperparameters))
    /\ pc' = "returned"
    /\ UNCHANGED <<datasets, ev, ret>>

\* evaluate_log_likelihood_at_hyperparameter_list
evaluate_log_likelihood_at_hyperparameter_list ==
    /\ pc = "idle"
    /\ \E hyperparameters_to_evaluate \in
            SeqsUpTo(ArgPoints(num_hyperparameters), MaxEvalList),
          max_num_threads \in 1..MaxThreads :
        LET args == EvaluateArgs
        IN  ret' = [Returned("evaluate_log_likelihood_at_hyperparameter_list",
                       <<>>, 0,
                       GPP_evaluate_log_likelihood_at_hyperparameter_list(
                           hyperparameters_to_evaluate, args.data, args.kind,
                           args.hyperparameters, Len(hyperparameters_to_evaluate),
                           max_num_threads),
                       NoError)
                    EXCEPT !.list = hyperparameters_to_evaluate,
                           !.threads = max_num_threads]
    /\ pc' = "returned"
    /\ call' = NoCall
    /\ UNCHANGED <<kernels, datasets, ev>>

\* the caller takes the outcome of the last call and goes on
Continue ==
    /\ pc = "returned"
    /\ pc' = "idle"
    /\ call' = NoCall
    /\ ret' = NoRet
    /\ UNCHANGED <<kernels, datasets, ev>>

Next ==
    \/ Construct
    \/ CallerSetHyperparameters
    \/ CallerMutateData
    \/ compute_log_likelihood
    \/ compute_grad_log_likelihood
    \/ compute_hessian
    \/ multistart_hyperparameter_optimization
    \/ WorkerRefine
    \/ MultistartJoin
    \/ evaluate_log_likelihood_at_hyperparameter_list
    \/ Continue

Spec == Init /\ [][Next]_vars

\* ================================================================ claims
HessianEntries == {"compute_hessian_log_likelihood", "compute_hessian_objective_function"}

HessianCalled == ret.op \in HessianEntries

\* C3 as stated: a Hessian call on an evaluator whose likelihood kind is
\* log_marginal_likelihood returns a result and raises no not-supported error.
C3_Original_HessianSupportedForLML ==
    (HessianCalled /\ ev._log_likelihood_type = LML) => ret.error = NoError

\* C3 amended: a Hessian call (through either entry point) on an evaluator whose
\* likelihood kind is log_marginal_likelihood raises NotImplementedError for
\* every hyperparameter vector and never returns a value.
C3_HessianNotImplementedForLML ==
    (HessianCalled /\ ev._log_likelihood_type = LML) =>
        ret.error = "NotImplementedError"

C3_Witness ==
    /\ HessianCalled
    /\ ev.cls = "LogMarginalLikelihood"
    /\ ev._log_likelihood_type = LML
    /\ ret.error = "NotImplementedError"

\* C4: a Hessian call (through either entry point) on an evaluator whose
\* likelihood kind is leave_one_out_log_likelihood raises the not-supported
\* error for every hyperparameter vector and never returns a value.
C4_HessianNotSupportedForLOO ==
    (HessianCalled /\ ev._log_likelihood_type = LOO) =>
        ret.error = "NotImplementedError"

C4_Witness ==
    /\ ret.op = "compute_hessian_objective_function"
    /\ ev.cls = "LeaveOneOutLogLikelihood"
    /\ ev._log_likelihood_type = LOO
    /\ ret.error = "NotImplementedError"

\* a step of the caller on its own kernel or dataset object
CallerStep == CallerSetHyperparameters \/ CallerMutateData

\* a step of an evaluator operation: a call, a worker step, a join, a return
EvaluatorStep == pc' # pc \/ call' # call

\* C7: the evaluator owns a private copy of kernel and dataset: no mutation by
\* the caller of its own kernel or dataset changes the kernel or dataset the
\* evaluator holds, and no evaluator operation (compute, gradient, Hessian,
\* multistart, batch evaluation) changes the caller's kernel or dataset.
C7_PrivateCopy ==
    [][/\ CallerStep =>
            /\ EvCovariance' = EvCovariance
            /\ EvHistoricalData' = EvHistoricalData
       /\ EvaluatorStep =>
            /\ kernels'[CallerObj] = kernels[CallerObj]
            /\ datasets'[CallerObj] = datasets[CallerObj]]_vars

\* the caller has changed both of its objects and the evaluator has computed
\* at hyperparameters the caller's kernel does not hold
C7_Witness ==
    /\ ret.op = "compute_log_likelihood"
    /\ EvCovariance = ret.arg
    /\ kernels[CallerObj] # EvCovariance
    /\ datasets[CallerObj] # EvHistoricalData

BatchReturned == ret.op = "evaluate_log_likelihood_at_hyperparameter_list"

\* C9: batch evaluation returns a list as long as its input whose i-th entry is
\* the value compute_log_likelihood returns for the i-th point on the same
\* evaluator, for every thread count and whatever the kernel holds.
C9_BatchEqualsCompute ==
    BatchReturned =>
        /\ Len(ret.values) = Len(ret.list)
        /\ \A i \in 1..Len(ret.list) :
              ret.values[i] = compute_log_likelihood_value(ret.list[i])

\* two different points evaluated by two threads, on an evaluator whose dataset
\* is no longer what the caller holds and whose kernel holds the first point
C9_Witness ==
    /\ BatchReturned
    /\ Len(ret.list) = 2
    /\ ret.list[1] # ret.list[2]
    /\ ret.values[1] # ret.values[2]
    /\ ret.threads = 2
    /\ EvCovariance = ret.list[1]
    /\ datasets[CallerObj] # EvHistoricalData

\* ------------------------------------------------------ multistart claims
CallMade == call.phase # "none"

Done == call.phase = "done"

EvKind == ev._log_likelihood_type

\* the evaluator's likelihood at a log10 point
LikelihoodAt(p) == compute_log_likelihood_value(Pow10Vec(p))

FirstInitialPoint == call.initial_points[1]

NoRefinedPointImproves ==
    \A k \in 1..Len(call.refined) :
        LikelihoodAt(call.refined[k]) <= LikelihoodAt(FirstInitialPoint)

\* C1: when no refined point has a likelihood strictly greater than the value
\* at the first initial point, the call returns exactly the first initial
\* point, reports found_improvement = false and raises no error.
C1_NoImprovementReturnsFirstPoint ==
    (Done /\ NoRefinedPointImproves) =>
        /\ call.hyperparameters = Pow10Vec(FirstInitialPoint)
        /\ ~call.found_improvement
        /\ call.error = NoError

\* several starts, one of them a different point that ties with the first
C1_Witness ==
    /\ Done
    /\ NoRefinedPointImproves
    /\ call.num_multistarts >= 2
    /\ \E k \in 2..Len(call.refined) :
          /\ call.refined[k] # FirstInitialPoint
          /\ LikelihoodAt(call.refined[k]) = LikelihoodAt(FirstInitialPoint)
    /\ call.hyperparameters = Pow10Vec(FirstInitialPoint)

SuppliedNonEmpty ==
    call.hyperparameter_domain.given /\ Len(call.hyperparameter_domain.intervals) > 0

\* the log10 domain of a call: the caller's, or [-2, 1] per hyperparameter
SearchDomain ==
    IF SuppliedNonEmpty THEN call.hyperparameter_domain.intervals
    ELSE [i \in 1..num_hyperparameters |-> ClosedInterval(-2, 1)]

\* C2: every coordinate i of the returned vector lies within
\* [10^lo_i, 10^hi_i] of the log10 domain, whatever the optimizer and whether
\* or not an improvement was found.
C2_DomainContainment ==
    Done =>
        /\ Len(call.hyperparameters) = num_hyperparameters
        /\ \A i \in 1..Len(call.hyperparameters) :
              /\ Pow10(SearchDomain[i].min) <= call.hyperparameters[i]
              /\ call.hyperparameters[i] <= Pow10(SearchDomain[i].max)

\* an improvement inside a supplied two-dimensional domain, found by ascent
\* that ends on the boundary of the domain
C2_Witness ==
    /\ Done
    /\ SuppliedNonEmpty
    /\ Len(call.hyperparameters) = 2
    /\ call.optimizer_type = "gradient_descent"
    /\ call.found_improvement
    /\ \E i \in 1..Len(call.hyperparameters) :
          call.hyperparameters[i] = Pow10(SearchDomain[i].max)

NoWorkStarted ==
    /\ call.queue = <<>>
    /\ Len(call.refined) = 0
    /\ call.evaluations = 0

NewtonOnLOO == call.optimizer_type = "newton" /\ EvKind = LOO

\* C5: a multistart call with the Newton optimizer on a LOO-CV evaluator fails
\* with UnsupportedOperation for every input and never runs an optimizer.
C5_NewtonLOOUnsupported ==
    (CallMade /\ NewtonOnLOO) =>
        /\ call.phase = "failed"
        /\ call.error = "UnsupportedOperation"
        /\ NoWorkStarted
        /\ call.hyperparameters = <<>>

\* the caller's parameters named the other objective and the domain is fine
C5_Witness ==
    /\ CallMade
    /\ NewtonOnLOO
    /\ call.given_objective_type = LML
    /\ IsValidDomain(call.domain, num_hyperparameters)
    /\ call.error = "UnsupportedOperation"

\* a supplied domain with a malformed interval or of the wrong length
SuppliedInvalid ==
    /\ call.hyperparameter_domain.given
    /\ \/ Len(call.hyperparameter_domain.intervals) # num_hyperparameters
       \/ \E i \in 1..Len(call.hyperparameter_domain.intervals) :
             call.hyperparameter_domain.intervals[i].min >
                 call.hyperparameter_domain.intervals[i].max

SuppliedEmpty ==
    call.hyperparameter_domain.given /\ Len(call.hyperparameter_domain.intervals) = 0

\* C6 as stated: a call with a domain that has an interval with min > max, or
\* whose length differs from num_hyperparameters, fails with InvalidDomain
\* before any worker starts and before any optimization or evaluation.
C6_Original_InvalidDomainFails ==
    (CallMade /\ SuppliedInvalid) =>
        /\ call.phase = "failed"
        /\ call.error = "InvalidDomain"
        /\ NoWorkStarted

\* C6 amended: a call with a non-empty domain that has an interval with
\* min > max, or whose length differs from num_hyperparameters, fails before
\* any worker starts and before any optimization or evaluation, with
\* InvalidDomain unless Newton is selected on a LOO-CV evaluator (then with
\* UnsupportedOperation); an empty domain is treated as no domain: it is
\* replaced by [-2, 1] per hyperparameter and the call does not fail for it.
C6_InvalidNonEmptyDomainFails ==
    /\ (CallMade /\ SuppliedInvalid /\ SuppliedNonEmpty) =>
          /\ call.phase = "failed"
          /\ call.error = IF NewtonOnLOO THEN "UnsupportedOperation"
                          ELSE "InvalidDomain"
          /\ NoWorkStarted
    /\ (CallMade /\ SuppliedEmpty) =>
          /\ call.domain = [i \in 1..num_hyperparameters |-> ClosedInterval(-2, 1)]
          /\ ~NewtonOnLOO => call.phase \in {"running", "done"}

\* a domain of the right length whose last interval has min > max
C6_Witness ==
    /\ CallMade
    /\ SuppliedNonEmpty
    /\ Len(call.hyperparameter_domain.intervals) = num_hyperparameters
    /\ SuppliedInvalid
    /\ call.error = "InvalidDomain"
    /\ NoWorkStarted

\* C8 as stated: without a domain the search domain is num_hyperparameters
\* intervals [-2, 1]; a domain supplied by the caller is used unchanged.
C8_Original_SuppliedDomainUnchanged ==
    CallMade =>
        call.domain = IF ~call.hyperparameter_domain.given
                      THEN [i \in 1..num_hyperparameters |-> ClosedInterval(-2, 1)]
                      ELSE call.hyperparameter_domain.intervals

\* C8 amended: without a domain, or with an empty one, the search domain is
\* num_hyperparameters intervals [-2, 1]; a non-empty domain supplied by the
\* caller is used unchanged.
C8_DefaultOrNonEmptySupplied ==
    CallMade =>
        call.domain = IF ~call.hyperparameter_domain.given \/ SuppliedEmpty
                      THEN [i \in 1..num_hyperparameters |-> ClosedInterval(-2, 1)]
                      ELSE call.hyperparameter_domain.intervals

\* a finished search over the default domain of a two-hyperparameter kernel
C8_Witness ==
    /\ Done
    /\ ~call.hyperparameter_domain.given
    /\ num_hyperparameters = 2
    /\ Len(call.domain) = 2

\* the refined point of start k in a sequential run over the starts
SequentialRefined(k) ==
    Refine(call.optimizer_type, call.max_iterations, EvHistoricalData, EvKind,
           call.domain, call.initial_points[k])

\* the maximizer that comes first in iteration order
EarliestMaximizer(values) ==
    CHOOSE k \in 1..Len(values) :
        /\ \A j \in 1..Len(values) : values[j] <= values[k]
        /\ \A j \in 1..(k - 1) : values[j] < values[k]

QueuesHolding(k) ==
    {w \in DOMAIN call.queue :
        \E j \in 1..Len(call.queue[w]) : call.queue[w][j] = k}

\* C10: every start is refined by exactly one worker, the selection runs only
\* after every worker has finished, and the selected point and
\* found_improvement are those of a sequential run whatever the interleaving:
\* the earliest maximizer wins ties, and found_improvement is true exactly when
\* the best value is strictly greater than the value at the first initial point.
C10_WorkersDisjointResultDeterministic ==
    /\ call.phase \in {"running", "done"} =>
          /\ Len(call.initial_points) = call.num_multistarts
          /\ \A k \in 1..call.num_multistarts :
                call.refine_count[k] + Cardinality(QueuesHolding(k)) = 1
    /\ Done =>
          /\ AllWorkersFinished(call)
          /\ \A k \in 1..call.num_multistarts :
                /\ call.refine_count[k] = 1
                /\ call.refined[k] = SequentialRefined(k)
          \* call.refined is the sequential run's, by the conjunct above
          /\ LET values == [k \in 1..call.num_multistarts |->
                               LikelihoodAt(call.refined[k])]
                 best == EarliestMaximizer(values)
                 found == values[best] > LikelihoodAt(FirstInitialPoint)
             IN  /\ call.found_improvement = found
                 /\ call.hyperparameters =
                        IF found THEN Pow10Vec(call.refined[best])
                        ELSE Pow10Vec(FirstInitialPoint)

\* two workers, three starts, and two different refined points that tie for
\* the best value: the earlier one is returned as an improvement
C10_Witness ==
    /\ Done
    /\ call.max_num_threads >= 2
    /\ call.num_multistarts >= 3
    /\ call.found_improvement
    /\ \E j, k \in 1..call.num_multistarts :
          /\ j < k
          /\ call.refined[j] # call.refined[k]
          /\ LikelihoodAt(call.refined[j]) = LikelihoodAt(call.refined[k])
          /\ \A i \in 1..call.num_multistarts :
                LikelihoodAt(call.refined[i]) <= LikelihoodAt(call.refined[j])
          /\ call.hyperparameters = Pow10Vec(call.refined[j])

\* a call of compute_log_likelihood or compute_grad_log_likelihood has returned
ComputeReturned == ret.op \in {"compute_log_likelihood", "compute_grad_log_likelihood"}

\* what a call with argument h returns on the evaluator's dataset and likelihood
\* type, computed from h alone
ValueOf(op, h) ==
    IF op = "compute_log_likelihood"
    THEN [value |-> GPP_compute_log_likelihood(EvHistoricalData, EvKind, h),
          values |-> <<>>]
    ELSE [value |-> 0,
          values |-> GPP_compute_hyperparameter_grad_log_likelihood(
                         EvHistoricalData, EvKind, h)]

\* C11: after a call compute_log_likelihood(h) or compute_grad_log_likelihood(h)
\* the evaluator's kernel holds h, the argument of the most recent call, and
\* the value returned is the one determined by h and the dataset, whatever
\* hyperparameters the kernel held before the call.
C11_KernelHoldsLastArgument ==
    ComputeReturned =>
        /\ EvCovariance = ret.arg
        /\ ret.value = ValueOf(ret.op, ret.arg).value
        /\ ret.values = ValueOf(ret.op, ret.arg).values

\* a gradient call whose argument differs from what the kernel held, and at
\* which the likelihood gradient differs from the one at the held value
C11_Witness ==
    /\ ret.op = "compute_grad_log_likelihood"
    /\ ret.held # ret.arg
    /\ EvCovariance = ret.arg
    /\ ret.values # ValueOf(ret.op, ret.held).values
    /\ datasets[CallerObj] # EvHistoricalData

\* a step of multistart_hyperparameter_optimization (entry, worker, join) or
\* of evaluate_log_likelihood_at_hyperparameter_list
SearchStep ==
    \/ pc = "idle" /\ call'.phase # "none"
    \/ pc = "running" /\ call' # call
    \/ pc = "idle" /\ ret'.op = "evaluate_log_likelihood_at_hyperparameter_list"

\* C12: multistart_hyperparameter_optimization and
\* evaluate_log_likelihood_at_hyperparameter_list leave the evaluator's kernel
\* hyperparameters, dataset and likelihood type as they were (the optimum is
\* returned, never stored in the kernel), and multistart sets the caller's
\* objective_type to the evaluator's likelihood type, whatever the caller had
\* set, so that is the objective that is optimized.
C12_SearchFrameAndObjectiveType ==
    [][/\ SearchStep =>
            /\ EvCovariance' = EvCovariance
            /\ EvHistoricalData' = EvHistoricalData
            /\ ev' = ev
       /\ call'.phase # "none" =>
            call'.objective_type = ev'._log_likelihood_type]_vars

\* a search that improved on its first point and returned an optimum the
\* kernel does not hold, for a caller whose objective_type was the other type
C12_Witness ==
    /\ Done
    /\ call.found_improvement
    /\ call.hyperparameters # EvCovariance
    /\ call.given_objective_type # EvKind
    /\ call.objective_type = EvKind

=============================================================================
